---------------------------- MODULE Spec2Model ----------------------------
(***************************************************************************)
(* A model of the ADK web crawler chat agent: the webpage fetch-and-clean   *)
(* pipeline of src/web_utils.py (fetch_webpage_content, clean_text,        *)
(* get_content_preview), the tools of src/adk_agent/agent.py over the      *)
(* shared webpage_storage, and the chat handlers of src/adk_app.py.        *)
(*                                                                         *)
(* A Python str is a sequence of one-character strings, so that prefix     *)
(* tests, splitting, stripping, slicing and lengths are computed the way   *)
(* the code computes them.                                                 *)
(***************************************************************************)
EXTENDS Integers, Sequences, FiniteSets, TLC

VARIABLES
  \* one call of a function of web_utils.py: its place, the function, its
  \* arguments and what it returned
  pc, op, fetchArgs, fetchRet, cleanIn, cleanOut, previewArgs, previewRet,
  \* the module-level dict of agent.py and the chat history of the session
  webpage_storage, chat_history,
  \* the last handler run, and what the tools and the model call returned
  last, toolArgs, toolRet, summaryRet, askRet,
  \* the threads running fetch_and_store_webpage at the same time
  threads

callVars ==
  <<pc, op, fetchArgs, fetchRet, cleanIn, cleanOut, previewArgs, previewRet>>

appVars ==
  <<webpage_storage, chat_history, last, toolArgs, toolRet, summaryRet, askRet>>

vars == <<callVars, appVars, threads>>

(***************************************************************************)
(* Bounds of the model.                                                    *)
(***************************************************************************)
\* longest string handed to clean_text on its own
MaxCleanLen == 5

\* longest content handed to get_content_preview on its own
MaxPreviewLen == 7

\* largest and (negated) smallest max_chars tried
MaxChars == 7

MaxNegChars == 3

\* most question-and-answer pairs kept in the chat history
MaxChatPairs == 2

\* most words in the paragraph of a generated page
MaxPageWords == 9

\* largest small word budget tried (besides the literal budgets below)
MaxBudget == 4

\* most negative word budget tried is -MaxNegBudget
MaxNegBudget == 2

(***************************************************************************)
(* Characters: the classes of Python's re module and of str.split/strip,   *)
(* restricted to ASCII.                                                    *)
(***************************************************************************)
Lower == {"a","b","c","d","e","f","g","h","i","j","k","l","m",
          "n","o","p","q","r","s","t","u","v","w","x","y","z"}

Upper == {"A","B","C","D","E","F","G","H","I","J","K","L","M",
          "N","O","P","Q","R","S","T","U","V","W","X","Y","Z"}

DIGITS == <<"0","1","2","3","4","5","6","7","8","9">>

Digit == {DIGITS[i] : i \in 1..Len(DIGITS)}

\* \s of a regular expression, and the whitespace of str.split and str.strip
IsSpace(c) == c \in {" ", "\t", "\n"}

\* \w of a regular expression
IsWordChar(c) == c \in Lower \cup Upper \cup Digit \cup {"_"}

\* the punctuation the third substitution of clean_text keeps
KeptPunctuation == {".", ",", "!", "?", ";", ":", "-", "(", ")", "[", "]", "'", "\""}

\* the complement of the class [^\w\s\.\,\!\?\;\:\-\(\)\[\]\'\"\n]
IsKept(c) == IsWordChar(c) \/ IsSpace(c) \/ c \in KeptPunctuation

(***************************************************************************)
(* str operations.                                                         *)
(***************************************************************************)
Min(a, b) == IF a < b THEN a ELSE b

Max(a, b) == IF a > b THEN a ELSE b

\* the first index >= i of s that holds no whitespace, Len(s) + 1 if none
RECURSIVE SkipSpace(_, _)
SkipSpace(s, i) ==
  IF i > Len(s) \/ ~IsSpace(s[i]) THEN i ELSE SkipSpace(s, i + 1)

\* the first index >= i of s that holds whitespace, Len(s) + 1 if none
RECURSIVE SkipWord(_, _)
SkipWord(s, i) ==
  IF i > Len(s) \/ IsSpace(s[i]) THEN i ELSE SkipWord(s, i + 1)

\* the last index <= i of s that holds no whitespace, 0 if none
RECURSIVE LastNonSpace(_, _)
LastNonSpace(s, i) ==
  IF i < 1 \/ ~IsSpace(s[i]) THEN i ELSE LastNonSpace(s, i - 1)

\* str.strip()
strip(s) == SubSeq(s, SkipSpace(s, 1), LastNonSpace(s, Len(s)))

\* str.split(): the maximal runs of non-whitespace, in order
RECURSIVE SplitFrom(_, _)
SplitFrom(s, i) ==
  LET b == SkipSpace(s, i)
      e == SkipWord(s, b)
  IN  IF b > Len(s) THEN <<>> ELSE <<SubSeq(s, b, e - 1)>> \o SplitFrom(s, e)

split(s) == SplitFrom(s, 1)

\* sep.join(parts)
RECURSIVE join(_, _)
join(sep, parts) ==
  IF parts = <<>> THEN <<>>
  ELSE IF Len(parts) = 1 THEN parts[1]
  ELSE parts[1] \o sep \o join(sep, Tail(parts))

\* a variant of SliceTo that keeps one element more
SliceTo_one_more(s, n) ==
  SubSeq(s, 1, IF n < 0 THEN Max(Len(s) + n + 1, 0) ELSE Min(n + 1, Len(s)))

\* a slice seq[:n], with Python's reading of a negative or too large n
SliceTo(s, n) ==
  SubSeq(s, 1, IF n < 0 THEN Max(Len(s) + n, 0) ELSE Min(n, Len(s)))

\* str.startswith(prefix)
StartsWithOne(s, prefix) ==
  Len(s) >= Len(prefix) /\ SubSeq(s, 1, Len(prefix)) = prefix

\* whether sub occurs in s (the in operator on str)
Contains(s, sub) ==
  \E i \in 1..(Len(s) - Len(sub) + 1) : SubSeq(s, i, i + Len(sub) - 1) = sub

\* a variant of startswith that accepts a prefix anywhere in the string
startswith_anywhere(s, prefixes) == \E p \in prefixes : Contains(s, p)

\* str.startswith(tuple of prefixes)
startswith(s, prefixes) == \E p \in prefixes : StartsWithOne(s, p)

\* the decimal digits of a natural number
RECURSIVE StrNat(_)
StrNat(n) ==
  IF n < 10 THEN <<DIGITS[n + 1]>>
  ELSE StrNat(n \div 10) \o <<DIGITS[(n % 10) + 1]>>

\* an int formatted by an f-string
Str(n) == IF n < 0 THEN <<"-">> \o StrNat(-n) ELSE StrNat(n)

(***************************************************************************)
(* clean_text.                                                             *)
(***************************************************************************)
\* re.sub(r'\s+', ' ', text): every maximal run of whitespace becomes a space
RECURSIVE CollapseFrom(_, _)
CollapseFrom(s, i) ==
  IF i > Len(s) THEN <<>>
  ELSE IF IsSpace(s[i]) THEN <<" ">> \o CollapseFrom(s, SkipSpace(s, i))
  ELSE <<s[i]>> \o CollapseFrom(s, i + 1)

CollapseSpaces(s) == CollapseFrom(s, 1)

\* re.sub(r'\n\s*\n', '\n\n', text): at a newline, the greedy \s* runs to the
\* last newline of the whitespace that follows
RECURSIVE BlankLinesFrom(_, _)
BlankLinesFrom(s, i) ==
  IF i > Len(s) THEN <<>>
  ELSE LET ends == {k \in (i + 1)..(SkipSpace(s, i + 1) - 1) : s[k] = "\n"}
       IN  IF s[i] = "\n" /\ ends # {}
           THEN <<"\n", "\n">>
                \o BlankLinesFrom(s, 1 + CHOOSE k \in ends : \A m \in ends : m <= k)
           ELSE <<s[i]>> \o BlankLinesFrom(s, i + 1)

CollapseBlankLines(s) == BlankLinesFrom(s, 1)

\* re.sub(r'[^\w\s\.\,\!\?\;\:\-\(\)\[\]\'\"\n]', '', text)
RemoveSpecial(s) == SelectSeq(s, IsKept)

clean_text(text) ==
  strip(RemoveSpecial(CollapseBlankLines(CollapseSpaces(text))))

(***************************************************************************)
(* get_content_preview.                                                    *)
(***************************************************************************)
ELLIPSIS == <<".", ".", ".">>

\* str.rfind(c): the 0-based place of the last c in s, -1 if there is none
rfind(s, c) ==
  LET hits == {i \in 1..Len(s) : s[i] = c}
  IN  IF hits = {} THEN 0 - 1
      ELSE (CHOOSE i \in hits : \A j \in hits : j <= i) - 1

\* last_space > max_chars * 0.8, as a comparison of integers
NearEnd(last_space, max_chars) == 5 * last_space > 4 * max_chars

\* a variant of get_content_preview that cuts one character late
get_content_preview_late(content, max_chars) ==
  IF Len(content) <= max_chars THEN content
  ELSE SliceTo(content, max_chars + 1) \o ELLIPSIS

get_content_preview(content, max_chars) ==
  IF Len(content) <= max_chars THEN content
  ELSE LET preview == SliceTo(content, max_chars)
           last_space == rfind(preview, " ")
       IN  (IF NearEnd(last_space, max_chars)
            THEN SliceTo(preview, last_space)
            ELSE preview) \o ELLIPSIS


(***************************************************************************)
(* String literals of fetch_webpage_content.                               *)
(***************************************************************************)
PREFIX_HTTP == <<"h","t","t","p",":","/","/">>

PREFIX_HTTPS == <<"h","t","t","p","s",":","/","/">>

MSG_INVALID_URL == <<"I","n","v","a","l","i","d"," ","U","R","L","."," ","P","l","e","a","s","e"," ","i","n","c","l","u","d","e"," ","h","t","t","p",":","/","/"," ","o","r"," ","h","t","t","p","s",":","/","/">>

MSG_NO_CONTENT == <<"N","o"," ","m","e","a","n","i","n","g","f","u","l"," ","c","o","n","t","e","n","t"," ","f","o","u","n","d"," ","o","n"," ","t","h","e"," ","w","e","b","p","a","g","e",".">>

MSG_TIMEOUT_HEAD == <<"R","e","q","u","e","s","t"," ","t","i","m","e","o","u","t"," ","a","f","t","e","r"," ">>

MSG_TIMEOUT_TAIL == <<" ","s","e","c","o","n","d","s","."," ","T","h","e"," ","w","e","b","p","a","g","e"," ","t","o","o","k"," ","t","o","o"," ","l","o","n","g"," ","t","o"," ","r","e","s","p","o","n","d",".">>

MSG_CONNECTION == <<"C","o","n","n","e","c","t","i","o","n"," ","e","r","r","o","r","."," ","P","l","e","a","s","e"," ","c","h","e","c","k"," ","y","o","u","r"," ","i","n","t","e","r","n","e","t"," ","c","o","n","n","e","c","t","i","o","n"," ","o","r"," ","t","h","e"," ","U","R","L",".">>

MSG_HTTP_HEAD == <<"H","T","T","P"," ","e","r","r","o","r"," ","o","c","c","u","r","r","e","d",":"," ">>

MSG_HTTP_SEP == <<" ","-"," ">>

MSG_REQUEST_HEAD == <<"E","r","r","o","r"," ","f","e","t","c","h","i","n","g"," ","w","e","b","p","a","g","e",":"," ">>

MSG_UNEXPECTED_HEAD == <<"U","n","e","x","p","e","c","t","e","d"," ","e","r","r","o","r",":"," ">>

MARK_HEAD == <<"\n","\n","[","C","o","n","t","e","n","t"," ","t","r","u","n","c","a","t","e","d"," ","a","t"," ">>

MARK_TAIL == <<" ","w","o","r","d","s","]">>

NO_TITLE == <<"N","o"," ","t","i","t","l","e">>

HDR_TITLE == <<"P","a","g","e"," ","T","i","t","l","e",":"," ">>

HDR_URL == <<"U","R","L",":"," ">>

HDR_COUNT == <<"W","o","r","d"," ","C","o","u","n","t",":"," ">>

HDR_WORDS == <<" ","w","o","r","d","s","\n">>

\* the width of the separator rule, '-' * 80
RULE_WIDTH == 80

\* the least length of a text that counts as content
MIN_CONTENT_LEN == 50

\* Response.raise_for_status raises for the statuses 400..599
HTTP_ERROR_FROM == 400

HTTP_ERROR_BELOW == 600

(***************************************************************************)
(* The parsed page.  A BeautifulSoup tree is the sequence, in document     *)
(* order, of its text-bearing places: a node holds the tags of the         *)
(* elements around a string, outermost first, and the string; a node with  *)
(* the empty string is an element without text.  The soup object itself,   *)
(* named '[document]', is the root and is no descendant of itself.         *)
(***************************************************************************)
Node(path, text) == [path |-> path, text |-> text]

\* a variant of REMOVED_TAGS that leaves the navigation in the tree
REMOVED_TAGS_without_nav ==
  {"script", "style", "head", "title", "meta", "[document]",
   "noscript", "header", "footer", "aside"}

\* the tag names handed to soup([...]) for removal
REMOVED_TAGS == {"script", "style", "head", "title", "meta", "[document]",
                 "noscript", "header", "footer", "nav", "aside"}

\* whether the node lies in (or is) an element named by one of the tags
Within(node, tags) == \E i \in 1..Len(node.path) : node.path[i] \in tags

\* for element in soup(tags): element.decompose()
decompose(soup, tags) == SelectSeq(soup, LAMBDA n : ~Within(n, tags))

\* soup.get_text(separator=' ', strip=True): the stripped, non-empty strings
RECURSIVE StrippedStrings(_)
StrippedStrings(soup) ==
  IF soup = <<>> THEN <<>>
  ELSE LET t == strip(soup[1].text)
       IN  (IF t = <<>> THEN <<>> ELSE <<t>>) \o StrippedStrings(Tail(soup))

get_text(soup) == join(<<" ">>, StrippedStrings(soup))

\* soup.find(tag): the place of the first element of that name, 0 for None
find(soup, tag) ==
  LET hits == {i \in 1..Len(soup) : Within(soup[i], {tag})}
  IN  IF hits = {} THEN 0 ELSE CHOOSE i \in hits : \A j \in hits : i <= j

\* page_title.get_text().strip() if page_title else "No title"
TitleText(soup) ==
  IF find(soup, "title") = 0 THEN NO_TITLE
  ELSE strip(soup[find(soup, "title")].text)

(***************************************************************************)
(* The exceptions of the requests library, as the except clauses see them. *)
(***************************************************************************)
\* the direct base classes of an exception class
Bases(cls) ==
  CASE cls = "ReadTimeout" -> {"Timeout"}
    [] cls = "ConnectTimeout" -> {"ConnectionError", "Timeout"}
    [] cls = "Timeout" -> {"RequestException"}
    [] cls = "SSLError" -> {"ConnectionError"}
    [] cls = "ConnectionError" -> {"RequestException"}
    [] cls = "HTTPError" -> {"RequestException"}
    [] cls = "TooManyRedirects" -> {"RequestException"}
    [] cls = "RequestException" -> {"Exception"}
    [] cls = "FeatureNotFound" -> {"Exception"}
    [] cls = "LocationParseError" -> {"Exception"}
    [] cls = "AttributeError" -> {"Exception"}
    [] OTHER -> {}

\* isinstance(e, target) for an exception e of class cls
RECURSIVE IsInstance(_, _)
IsInstance(cls, target) ==
  cls = target \/ \E b \in Bases(cls) : IsInstance(b, target)

(***************************************************************************)
(* fetch_webpage_content.  net is what the network and the parser do       *)
(* during the call: net.get is "ok" or the class requests.get raises;      *)
(* net.response tells whether a raised exception carries a response;       *)
(* net.status and net.reason are the response's; net.msg is str(e);        *)
(* net.parse is "ok" or the class BeautifulSoup raises; net.page is the    *)
(* parsed tree.                                                            *)
(*                                                                         *)
(* The result has the returned pair (success, content), or raised = TRUE   *)
(* and the class in exc when an exception leaves the call; gets counts     *)
(* the calls of requests.get; reached, cleaned, words and text are the     *)
(* locals of the call (cleaned is text as clean_text returned it).         *)
(***************************************************************************)
Result(success, content, gets, reached, cleaned, words, text) ==
  [raised |-> FALSE, exc |-> "none", success |-> success, content |-> content,
   gets |-> gets, reached |-> reached, cleaned |-> cleaned, words |-> words,
   text |-> text]

Escaped(cls, gets) ==
  [raised |-> TRUE, exc |-> cls, success |-> FALSE, content |-> <<>>,
   gets |-> gets, reached |-> "except", cleaned |-> <<>>, words |-> <<>>,
   text |-> <<>>]

\* a variant of Failed that requests the page once more before giving up
Failed_retried(content, gets, reached) ==
  Result(FALSE, content, gets + 1, reached, <<>>, <<>>, <<>>)

Failed(content, gets, reached) ==
  Result(FALSE, content, gets, reached, <<>>, <<>>, <<>>)

\* the except clauses, in their order, for an exception of class cls raised
\* in the try block
except(cls, net, hasResponse, timeout, gets) ==
  IF IsInstance(cls, "Timeout")
  THEN Failed(MSG_TIMEOUT_HEAD \o Str(timeout) \o MSG_TIMEOUT_TAIL, gets, "except")
  ELSE IF IsInstance(cls, "ConnectionError")
  THEN Failed(MSG_CONNECTION, gets, "except")
  ELSE IF IsInstance(cls, "HTTPError")
  THEN IF hasResponse
       THEN Failed(MSG_HTTP_HEAD \o Str(net.status) \o MSG_HTTP_SEP \o net.reason,
                   gets, "except")
       \* e.response is None: e.response.status_code raises in the handler
       ELSE Escaped("AttributeError", gets)
  ELSE IF IsInstance(cls, "RequestException")
  THEN Failed(MSG_REQUEST_HEAD \o net.msg, gets, "except")
  ELSE IF IsInstance(cls, "Exception")
  THEN Failed(MSG_UNEXPECTED_HEAD \o net.msg, gets, "except")
  ELSE Escaped(cls, gets)

\* the literal appended to a truncated text
Marker(max_words) == MARK_HEAD \o Str(max_words) \o MARK_TAIL

\* a variant of Truncate that also cuts a text of exactly max_words words
Truncate_inclusive(text, max_words) ==
  LET words == split(text)
  IN  IF Len(words) >= max_words
      THEN join(<<" ">>, SliceTo(words, max_words)) \o Marker(max_words)
      ELSE text

\* the lines "Limit to max_words"
Truncate(text, max_words) ==
  LET words == split(text)
  IN  IF Len(words) > max_words
      THEN join(<<" ">>, SliceTo(words, max_words)) \o Marker(max_words)
      ELSE text

\* the lines "Add metadata", on the tree the removals left
Format(soup, url, text) ==
  HDR_TITLE \o TitleText(soup) \o <<"\n">>
  \o HDR_URL \o url \o <<"\n">>
  \o HDR_COUNT \o Str(Len(split(text))) \o HDR_WORDS
  \o [i \in 1..RULE_WIDTH |-> "-"] \o <<"\n", "\n">>
  \o text

\* the try block from the parsed tree on
Extract(url, max_words, page) ==
  LET soup == decompose(page, REMOVED_TAGS)
      cleaned == clean_text(get_text(soup))
      words == split(cleaned)
      text == Truncate(cleaned, max_words)
  IN  IF text = <<>> \/ Len(strip(text)) < MIN_CONTENT_LEN
      THEN Result(FALSE, MSG_NO_CONTENT, 1, "check", cleaned, words, text)
      ELSE Result(TRUE, Format(soup, url, text), 1, "return", cleaned, words, text)

fetch_webpage_content(url, max_words, timeout, net) ==
  IF ~startswith(url, {PREFIX_HTTP, PREFIX_HTTPS})
  THEN Failed(MSG_INVALID_URL, 0, "validate")
  ELSE IF net.get # "ok"
  THEN except(net.get, net, net.response, timeout, 1)
  ELSE IF net.status >= HTTP_ERROR_FROM /\ net.status < HTTP_ERROR_BELOW
  THEN except("HTTPError", net, TRUE, timeout, 1)
  ELSE IF net.parse # "ok"
  THEN except(net.parse, net, FALSE, timeout, 1)
  ELSE Extract(url, max_words, net.page)

(***************************************************************************)
(* The inputs the calls are tried on.                                      *)
(***************************************************************************)
\* the defaults of fetch_webpage_content's parameters
DEFAULT_MAX_WORDS == 25000

DEFAULT_TIMEOUT == 30

URL_HTTP == <<"h","t","t","p",":","/","/","a">>

URL_HTTPS == <<"h","t","t","p","s",":","/","/","a">>

Urls ==
  {URL_HTTP, URL_HTTPS, <<>>,
   <<"f","t","p",":","/","/","a">>,
   <<"h","t","t","p",":","/","a">>,
   <<"H","T","T","P",":","/","/","a">>,
   <<" ","h","t","t","p",":","/","/","a">>}

Budgets == ((0 - MaxNegBudget)..MaxBudget) \cup {1000, DEFAULT_MAX_WORDS}

Timeouts == {5, DEFAULT_TIMEOUT}

ALPHA == <<"a","b","c","d","e","f","g","h","i","j","k","l","m",
           "n","o","p","q","r","s","t","u","v","w","x","y","z">>

\* the k-th generated word, w letters long
WordOf(k, w) == [i \in 1..w |-> ALPHA[k]]

WordLens == {1, 6}

TXT_CATS == <<"C","a","t","s">>

TXT_MENU == <<"m","e","n","u">>

HEAD_TITLE == <<"html", "head", "title">>

BODY_NAV == <<"html", "body", "nav">>

BODY_P == <<"html", "body", "p">>

\* a page with a navigation bar, a script and one paragraph of n words
GeneratedPage(n, w, titled) ==
  (IF titled THEN <<Node(HEAD_TITLE, <<" ">> \o TXT_CATS \o <<"\n">>)>> ELSE <<>>)
  \o <<Node(BODY_NAV, TXT_MENU),
       Node(<<"html", "body", "script">>, <<"v","a","r"," ","x",";">>),
       Node(BODY_P, <<"\n", " ">> \o join(<<" ">>, [k \in 1..n |-> WordOf(k, w)])
                    \o <<" ", "\n">>)>>

\* <html><head><title>Cats</title></head><body><nav>menu</nav>
\* <p>Cats are mammals. </p></body></html>
PageA ==
  <<Node(HEAD_TITLE, TXT_CATS), Node(BODY_NAV, TXT_MENU),
    Node(BODY_P, <<"C","a","t","s"," ","a","r","e"," ","m","a","m","m","a","l","s","."," ">>)>>

\* a page whose body text is "one two three four five"
PageB ==
  <<Node(BODY_P, <<"o","n","e"," ","t","w","o"," ","t","h","r","e","e"," ","f","o","u","r"," ","f","i","v","e">>)>>

\* a page whose only visible text is 10 characters long
PageD ==
  <<Node(HEAD_TITLE, TXT_CATS),
    Node(BODY_P, <<"H","e","l","l","o"," ","c","a","t","s">>)>>

Pages ==
  {PageA, PageB, PageD}
  \cup {GeneratedPage(n, w, t) : n \in 0..MaxPageWords, w \in WordLens, t \in BOOLEAN}

Net(get, response, status, reason, msg, parse, page) ==
  [get |-> get, response |-> response, status |-> status, reason |-> reason,
   msg |-> msg, parse |-> parse, page |-> page]

REASON_OK == <<"O","K">>

REASON_NOT_FOUND == <<"N","o","t"," ","F","o","u","n","d">>

REASON_SERVER_ERROR == <<"S","e","r","v","e","r"," ","E","r","r","o","r">>

EXC_MSG == <<"b","o","o","m">>

\* requests.get raises
NetRaises ==
  {Net(cls, FALSE, 0, <<>>, EXC_MSG, "ok", <<>>) :
     cls \in {"ReadTimeout", "ConnectTimeout", "ConnectionError", "SSLError",
              "HTTPError", "TooManyRedirects", "LocationParseError"}}
  \cup {Net("HTTPError", TRUE, 404, REASON_NOT_FOUND, EXC_MSG, "ok", <<>>)}

\* requests.get returns a response with an error status
NetErrorStatus ==
  {Net("ok", TRUE, 404, REASON_NOT_FOUND, <<>>, "ok", <<>>),
   Net("ok", TRUE, 500, REASON_SERVER_ERROR, <<>>, "ok", <<>>)}

\* the response is fine and the parser raises
NetParseFails ==
  {Net("ok", TRUE, 200, REASON_OK, EXC_MSG, "FeatureNotFound", <<>>)}

\* the response is fine and parses to a page
NetPages == {Net("ok", TRUE, 200, REASON_OK, <<>>, "ok", p) : p \in Pages}

Nets == NetRaises \cup NetErrorStatus \cup NetParseFails \cup NetPages

FetchInputs == [url : Urls, max_words : Budgets, timeout : Timeouts, net : Nets]

CleanAlphabet == {"a", " ", "\n", "@"}

CleanInputs == UNION {[1..n -> CleanAlphabet] : n \in 0..MaxCleanLen}

NoArgs ==
  [url |-> <<>>, max_words |-> 0, timeout |-> 0,
   net |-> Net("ok", FALSE, 0, <<>>, <<>>, "ok", <<>>)]

NoResult == Failed(<<>>, 0, "none")

PreviewAlphabet == {"a", " "}

PreviewInputs ==
  [content : UNION {[1..n -> PreviewAlphabet] : n \in 0..MaxPreviewLen},
   max_chars : (0 - MaxNegChars)..MaxChars]

NoPreviewArgs == [content |-> <<>>, max_chars |-> 0]

(***************************************************************************)
(* The state of the application.  webpage_storage is the dict of agent.py: *)
(* keys holds the keys present, and url, content and word_count their      *)
(* values (the empty string and 0 while the key is absent).                *)
(***************************************************************************)
Storage(keys, url, content, word_count) ==
  [keys |-> keys, url |-> url, content |-> content, word_count |-> word_count]

\* webpage_storage = {} and webpage_storage.clear()
EmptyStorage == Storage({}, <<>>, <<>>, 0)

\* what fetch_and_store_webpage returns
ToolResult(status, message, content, word_count) ==
  [status |-> status, message |-> message, content |-> content,
   word_count |-> word_count]

NoToolResult == ToolResult("none", <<>>, <<>>, 0)

\* what get_content_summary returns
SummaryResult(status, url, summary, word_count, max_chars) ==
  [status |-> status, url |-> url, summary |-> summary,
   word_count |-> word_count, max_chars |-> max_chars]

NoSummaryResult == SummaryResult("none", <<>>, <<>>, 0, 0)

\* what a question's handler did: the question, the prompt built for it,
\* the calls of litellm.completion made and the response shown
AskResult(question, prompt, calls, response) ==
  [question |-> question, prompt |-> prompt, calls |-> calls,
   response |-> response]

NoAskResult == AskResult(<<>>, "none", 0, <<>>)

NoToolArgs == [url |-> <<>>, net |-> NoArgs.net]

AppInit ==
  /\ webpage_storage = EmptyStorage
  /\ chat_history = <<>>
  /\ last = "none"
  /\ toolArgs = NoToolArgs
  /\ toolRet = NoToolResult
  /\ summaryRet = NoSummaryResult
  /\ askRet = NoAskResult

\* no call of fetch_and_store_webpage is running beside the handlers
NoThreads == <<>>

(***************************************************************************)
(* The calls.  A behaviour is one call on one input: of                    *)
(* fetch_webpage_content, of get_content_preview, or of clean_text and     *)
(* then of clean_text again on what it returned.                           *)
(***************************************************************************)
Init ==
  /\ pc = "call"
  /\ fetchRet = NoResult
  /\ cleanOut = <<>>
  /\ previewRet = <<>>
  /\ \/ /\ op = "fetch" /\ fetchArgs \in FetchInputs
        /\ cleanIn = <<>> /\ previewArgs = NoPreviewArgs
     \/ /\ op = "clean" /\ cleanIn \in CleanInputs
        /\ fetchArgs = NoArgs /\ previewArgs = NoPreviewArgs
     \/ /\ op = "preview" /\ previewArgs \in PreviewInputs
        /\ fetchArgs = NoArgs /\ cleanIn = <<>>
  /\ AppInit
  /\ threads = NoThreads

Fetch ==
  /\ pc = "call" /\ op = "fetch"
  /\ fetchRet' = fetch_webpage_content(fetchArgs.url, fetchArgs.max_words,
                                       fetchArgs.timeout, fetchArgs.net)
  /\ pc' = "done"
  /\ UNCHANGED <<op, fetchArgs, cleanIn, cleanOut, previewArgs, previewRet>>
  /\ UNCHANGED <<appVars, threads>>

Clean ==
  /\ pc = "call" /\ op = "clean"
  /\ cleanOut' = <<clean_text(cleanIn)>>
  /\ pc' = "again"
  /\ UNCHANGED <<op, fetchArgs, fetchRet, cleanIn, previewArgs, previewRet>>
  /\ UNCHANGED <<appVars, threads>>

CleanAgain ==
  /\ pc = "again" /\ op = "clean"
  /\ cleanOut' = Append(cleanOut, clean_text(cleanOut[Len(cleanOut)]))
  /\ pc' = "done"
  /\ UNCHANGED <<op, fetchArgs, fetchRet, cleanIn, previewArgs, previewRet>>
  /\ UNCHANGED <<appVars, threads>>

Preview ==
  /\ pc = "call" /\ op = "preview"
  /\ previewRet' = get_content_preview(previewArgs.content, previewArgs.max_chars)
  /\ pc' = "done"
  /\ UNCHANGED <<op, fetchArgs, fetchRet, cleanIn, cleanOut, previewArgs>>
  /\ UNCHANGED <<appVars, threads>>

Next == Fetch \/ Clean \/ CleanAgain \/ Preview

Spec == Init /\ [][Next]_vars

(***************************************************************************)
(* The tools of agent.py over webpage_storage.                             *)
(***************************************************************************)
\* Config.MAX_WORDS, with no MAX_WORDS in the environment
CONFIG_MAX_WORDS == 25000

\* the length of the preview a successful fetch_and_store_webpage returns,
\* and the default max_chars of get_content_summary
TOOL_PREVIEW_CHARS == 500

DEFAULT_SUMMARY_CHARS == 500

StorageKeys == {"url", "content", "word_count"}

\* same as SetItem, but the key is not entered into the dict
SetItem_without_key(storage, key, value) == [storage EXCEPT ![key] = value]

\* webpage_storage[key] = value
SetItem(storage, key, value) ==
  [storage EXCEPT !.keys = @ \cup {key}, ![key] = value]

\* webpage_storage.get(key, default)
GetItem(storage, key, default) ==
  IF key \in storage.keys THEN storage[key] ELSE default

\* the truth value of webpage_storage.get("content")
HasContent(storage) == GetItem(storage, "content", <<>>) # <<>>

\* str(e) of the AttributeError raised by None.status_code
MSG_NONE_ATTRIBUTE == <<"'","N","o","n","e","T","y","p","e","'"," ","o","b","j","e","c","t"," ","h","a","s"," ","n","o"," ","a","t","t","r","i","b","u","t","e"," ","'","s","t","a","t","u","s","_","c","o","d","e","'">>

\* "U+2705" stands for the one character WHITE HEAVY CHECK MARK
MSG_STORED_HEAD == <<"U+2705"," ","S","u","c","c","e","s","s","f","u","l","l","y"," ","f","e","t","c","h","e","d"," ","a","n","d"," ","s","t","o","r","e","d"," ">>

MSG_STORED_TAIL == <<" ","w","o","r","d","s"," ","f","r","o","m"," ","t","h","e"," ","w","e","b","p","a","g","e","."," ","Y","o","u"," ","c","a","n"," ","n","o","w"," ","a","s","k"," ","q","u","e","s","t","i","o","n","s"," ","a","b","o","u","t"," ","i","t",".">>

MSG_NOT_FETCHED == <<"N","o"," ","w","e","b","p","a","g","e"," ","h","a","s"," ","b","e","e","n"," ","f","e","t","c","h","e","d"," ","y","e","t","."," ","P","l","e","a","s","e"," ","u","s","e"," ","f","e","t","c","h","_","a","n","d","_","s","t","o","r","e","_","w","e","b","p","a","g","e"," ","f","i","r","s","t",".">>

\* the message of the tool when an exception reaches it
MSG_TOOL_ERROR_HEAD == <<"E","r","r","o","r"," ","f","e","t","c","h","i","n","g"," ","w","e","b","p","a","g","e",":"," ">>

URL_UNKNOWN == <<"U","n","k","n","o","w","n">>

\* content[:n] + "..." if len(content) > n else content
Shorten(content, n) ==
  IF Len(content) > n THEN SliceTo(content, n) \o ELLIPSIS ELSE content

\* the assignments "Store in memory" without the one to "url"
StorePage_keeps_url(storage, url, content, word_count) ==
  SetItem(SetItem(storage, "content", content), "word_count", word_count)

\* the three assignments "Store in memory", one after the other
StorePage(storage, url, content, word_count) ==
  SetItem(SetItem(SetItem(storage, "url", url), "content", content),
          "word_count", word_count)

\* fetch_and_store_webpage up to its assignments to webpage_storage: the
\* page to store (store = TRUE) or the error result to return
FetchForStore(url, net) ==
  LET r == fetch_webpage_content(url, CONFIG_MAX_WORDS, DEFAULT_TIMEOUT, net)
  IN  IF r.raised
      THEN [store |-> FALSE, url |-> url, content |-> <<>>, word_count |-> 0,
            ret |-> ToolResult("error", MSG_TOOL_ERROR_HEAD \o MSG_NONE_ATTRIBUTE,
                               <<>>, 0)]
      ELSE IF ~r.success
      THEN [store |-> FALSE, url |-> url, content |-> <<>>, word_count |-> 0,
            ret |-> ToolResult("error", r.content, <<>>, 0)]
      ELSE [store |-> TRUE, url |-> url, content |-> r.content,
            word_count |-> Len(split(r.content)),
            ret |-> ToolResult("success",
                      MSG_STORED_HEAD \o Str(Len(split(r.content))) \o MSG_STORED_TAIL,
                      Shorten(r.content, TOOL_PREVIEW_CHARS),
                      Len(split(r.content)))]

\* the urls and the network outcomes the tool is tried on
AppUrls == {URL_HTTP, URL_HTTPS, <<"f","t","p",":","/","/","a">>}

AppNets ==
  {Net("ok", TRUE, 200, REASON_OK, <<>>, "ok", GeneratedPage(MaxPageWords, 6, TRUE)),
   Net("ok", TRUE, 200, REASON_OK, <<>>, "ok", GeneratedPage(MaxPageWords - 1, 6, FALSE)),
   Net("ok", TRUE, 200, REASON_OK, <<>>, "ok", PageD),
   Net("ok", TRUE, 404, REASON_NOT_FOUND, <<>>, "ok", <<>>),
   Net("ReadTimeout", FALSE, 0, <<>>, EXC_MSG, "ok", <<>>),
   Net("HTTPError", FALSE, 0, <<>>, EXC_MSG, "ok", <<>>)}

\* FetchForStore of every input tried, computed once
Fetched ==
  {[url |-> u, net |-> n, out |-> FetchForStore(u, n)] : u \in AppUrls, n \in AppNets}

\* a variant of fetch_and_store_webpage that empties the storage when the
\* fetch fails
fetch_and_store_webpage_forgets(storage, url, net) ==
  LET f == (CHOOSE x \in Fetched : x.url = url /\ x.net = net).out
  IN  [ret |-> f.ret,
       storage |-> IF f.store
                   THEN StorePage(storage, f.url, f.content, f.word_count)
                   ELSE EmptyStorage]

\* fetch_and_store_webpage run alone: what it returns and the storage after
fetch_and_store_webpage(storage, url, net) ==
  LET f == (CHOOSE x \in Fetched : x.url = url /\ x.net = net).out
  IN  [ret |-> f.ret,
       storage |-> IF f.store
                   THEN StorePage(storage, f.url, f.content, f.word_count)
                   ELSE storage]

get_content_summary(storage, max_chars) ==
  IF ~HasContent(storage)
  THEN SummaryResult("error", <<>>, <<>>, 0, max_chars)
  ELSE SummaryResult("success", GetItem(storage, "url", URL_UNKNOWN),
                     Shorten(storage.content, max_chars),
                     GetItem(storage, "word_count", 0), max_chars)

(***************************************************************************)
(* The chat of adk_app.py.                                                 *)
(***************************************************************************)
LOWERCASE == <<"a","b","c","d","e","f","g","h","i","j","k","l","m","n","o","p","q","r","s","t","u","v","w","x","y","z">>

UPPERCASE == <<"A","B","C","D","E","F","G","H","I","J","K","L","M","N","O","P","Q","R","S","T","U","V","W","X","Y","Z">>

\* str.lower()
lower(s) ==
  [i \in 1..Len(s) |->
     IF s[i] \in Upper
     THEN LOWERCASE[CHOOSE k \in 1..Len(UPPERCASE) : UPPERCASE[k] = s[i]]
     ELSE s[i]]

GREETINGS ==
  {<<"h","i">>, <<"h","e","l","l","o">>, <<"h","e","y">>,
   <<"g","o","o","d"," ","m","o","r","n","i","n","g">>,
   <<"g","o","o","d"," ","a","f","t","e","r","n","o","o","n">>,
   <<"g","o","o","d"," ","e","v","e","n","i","n","g">>}

MSG_ERROR_HEAD == <<"E","r","r","o","r",":"," ">>

MSG_ERROR_TAIL == <<"\n","\n","P","l","e","a","s","e"," ","e","n","s","u","r","e"," ","y","o","u","r"," ","m","o","d","e","l"," ","p","r","o","v","i","d","e","r"," ","i","s"," ","r","u","n","n","i","n","g"," ","a","n","d"," ","c","o","n","f","i","g","u","r","e","d"," ","c","o","r","r","e","c","t","l","y",".">>

\* ask_agent_with_context.  llm is what the model call does: "ok" (the
\* completion answers llm_text), "no_module" (import litellm raises) or
\* "fails" (litellm.completion raises).  The prompt is named by its form.
ask_agent_with_context(storage, question, llm, llm_text) ==
  LET content == GetItem(storage, "content", <<>>)
      is_greeting == strip(lower(question)) \in GREETINGS
      prompt == IF content # <<>> /\ ~is_greeting THEN "context"
                ELSE IF is_greeting THEN "greeting" ELSE "plain"
  IN  IF llm = "no_module"
      THEN AskResult(question, "none", 0, MSG_ERROR_HEAD \o EXC_MSG \o MSG_ERROR_TAIL)
      ELSE IF llm = "fails"
      THEN AskResult(question, prompt, 1, MSG_ERROR_HEAD \o EXC_MSG \o MSG_ERROR_TAIL)
      ELSE AskResult(question, prompt, 1, llm_text)

\* a variant of the chat input's handler that records the question before
\* looking for a stored page
ChatInput_records_first(storage, history, question, llm, llm_text) ==
  IF ~HasContent(storage)
  THEN [history |-> Append(history, <<"user", question>>),
        ask |-> AskResult(question, "none", 0, <<>>)]
  ELSE LET a == ask_agent_with_context(storage, question, llm, llm_text)
       IN  [history |-> history \o <<<<"user", question>>, <<"assistant", a.response>>>>,
            ask |-> a]

\* the handler of st.chat_input: the chat history after it, and what the
\* model call did
ChatInput(storage, history, question, llm, llm_text) ==
  IF ~HasContent(storage)
  THEN [history |-> history, ask |-> AskResult(question, "none", 0, <<>>)]
  ELSE LET a == ask_agent_with_context(storage, question, llm, llm_text)
       IN  [history |-> history \o <<<<"user", question>>, <<"assistant", a.response>>>>,
            ask |-> a]

(***************************************************************************)
(* The handlers of a session, run one at a time.                           *)
(***************************************************************************)
SummaryChars == {0 - 1, 0, 10, DEFAULT_SUMMARY_CHARS}

Questions ==
  {<<"W","h","a","t"," ","d","o"," ","c","a","t","s"," ","e","a","t","?">>,
   <<" ","H","e","l","l","o"," ">>}

LlmOutcomes == {"ok", "no_module", "fails"}

LLM_TEXT == <<"C","a","t","s"," ","e","a","t"," ","f","i","s","h",".">>

AppStart ==
  /\ pc = "app" /\ op = "none"
  /\ fetchArgs = NoArgs /\ fetchRet = NoResult
  /\ cleanIn = <<>> /\ cleanOut = <<>>
  /\ previewArgs = NoPreviewArgs /\ previewRet = <<>>
  /\ AppInit
  /\ threads = NoThreads

\* the Fetch Page button, or the agent's tool call
FetchAndStore ==
  \E url \in AppUrls, net \in AppNets :
    LET f == fetch_and_store_webpage(webpage_storage, url, net)
    IN  /\ last' = "fetch"
        /\ toolArgs' = [url |-> url, net |-> net]
        /\ toolRet' = f.ret
        /\ webpage_storage' = f.storage
        /\ summaryRet' = NoSummaryResult
        /\ askRet' = NoAskResult
        /\ UNCHANGED <<chat_history, callVars, threads>>

\* the Reset All button
ResetAll ==
  /\ last' = "reset"
  /\ chat_history' = <<>>
  /\ webpage_storage' = EmptyStorage
  /\ toolArgs' = NoToolArgs /\ toolRet' = NoToolResult
  /\ summaryRet' = NoSummaryResult /\ askRet' = NoAskResult
  /\ UNCHANGED <<callVars, threads>>

\* the Clear Chat History button
ClearChat ==
  /\ last' = "clear"
  /\ chat_history' = <<>>
  /\ toolArgs' = NoToolArgs /\ toolRet' = NoToolResult
  /\ summaryRet' = NoSummaryResult /\ askRet' = NoAskResult
  /\ UNCHANGED <<webpage_storage, callVars, threads>>

\* the agent's tool call of get_content_summary
Summary ==
  \E max_chars \in SummaryChars :
    /\ last' = "summary"
    /\ summaryRet' = get_content_summary(webpage_storage, max_chars)
    /\ toolArgs' = NoToolArgs /\ toolRet' = NoToolResult
    /\ askRet' = NoAskResult
    /\ UNCHANGED <<webpage_storage, chat_history, callVars, threads>>

\* a question typed into the chat input
Ask ==
  \E question \in Questions, llm \in LlmOutcomes :
    LET c == ChatInput(webpage_storage, chat_history, question, llm, LLM_TEXT)
    IN  /\ Len(chat_history) < 2 * MaxChatPairs
        /\ last' = "ask"
        /\ chat_history' = c.history
        /\ askRet' = c.ask
        /\ toolArgs' = NoToolArgs /\ toolRet' = NoToolResult
        /\ summaryRet' = NoSummaryResult
        /\ UNCHANGED <<webpage_storage, callVars, threads>>

AppNext == FetchAndStore \/ ResetAll \/ ClearChat \/ Summary \/ Ask

AppSpec == AppStart /\ [][AppNext]_vars

(***************************************************************************)
(* Two calls of fetch_and_store_webpage running at once, as two sessions   *)
(* of the app make them, over the one module-level webpage_storage.  A     *)
(* thread that has fetched its page makes the three assignments of "Store  *)
(* in memory" one at a time, and the other thread may run between them.    *)
(* threads[t] holds the position of thread t (pc), its argument (url), what *)
(* the network does for it (net) and the locals of its call (out).         *)
(***************************************************************************)
Thread(pos, url, net, out) == [pc |-> pos, url |-> url, net |-> net, out |-> out]

\* the locals of a call that has not fetched yet
NoOut ==
  [store |-> FALSE, url |-> <<>>, content |-> <<>>, word_count |-> 0,
   ret |-> NoToolResult]

ConcStart ==
  /\ pc = "threads" /\ op = "none"
  /\ fetchArgs = NoArgs /\ fetchRet = NoResult
  /\ cleanIn = <<>> /\ cleanOut = <<>>
  /\ previewArgs = NoPreviewArgs /\ previewRet = <<>>
  /\ AppInit
  /\ \E u1 \in AppUrls, n1 \in AppNets :
       \E u2 \in AppUrls \ {u1}, n2 \in AppNets :
         threads = <<Thread("fetch", u1, n1, NoOut), Thread("fetch", u2, n2, NoOut)>>

\* lines 85-99: the fetch; an error result is returned at once
ThreadFetch(t) ==
  LET me == threads[t]
      f == (CHOOSE x \in Fetched : x.url = me.url /\ x.net = me.net).out
  IN  /\ me.pc = "fetch"
      /\ threads' = [threads EXCEPT ![t].out = f,
                                    ![t].pc = IF f.store THEN "url" ELSE "done"]
      /\ UNCHANGED <<callVars, appVars>>

\* line 102: webpage_storage["url"] = url
WriteUrl(t) ==
  LET me == threads[t]
  IN  /\ me.pc = "url"
      /\ webpage_storage' = SetItem(webpage_storage, "url", me.out.url)
      /\ threads' = [threads EXCEPT ![t].pc = "content"]
      /\ UNCHANGED <<callVars, chat_history, last, toolArgs, toolRet, summaryRet, askRet>>

\* line 103: webpage_storage["content"] = content
WriteContent(t) ==
  LET me == threads[t]
  IN  /\ me.pc = "content"
      /\ webpage_storage' = SetItem(webpage_storage, "content", me.out.content)
      /\ threads' = [threads EXCEPT ![t].pc = "word_count"]
      /\ UNCHANGED <<callVars, chat_history, last, toolArgs, toolRet, summaryRet, askRet>>

\* line 104: webpage_storage["word_count"] = word_count, and the return
WriteWordCount(t) ==
  LET me == threads[t]
  IN  /\ me.pc = "word_count"
      /\ webpage_storage' = SetItem(webpage_storage, "word_count", me.out.word_count)
      /\ threads' = [threads EXCEPT ![t].pc = "done"]
      /\ UNCHANGED <<callVars, chat_history, last, toolArgs, toolRet, summaryRet, askRet>>

ConcNext ==
  \/ \E t \in DOMAIN threads : ThreadFetch(t)
  \/ \E t \in DOMAIN threads : WriteUrl(t)
  \/ \E t \in DOMAIN threads : WriteContent(t)
  \/ \E t \in DOMAIN threads : WriteWordCount(t)

ConcSpec == ConcStart /\ [][ConcNext]_vars

(***************************************************************************)
(* The claims.                                                             *)
(***************************************************************************)
\* a call of fetch_webpage_content has returned or raised
FetchDone == pc = "done" /\ op = "fetch"

\* the url of the call begins with http:// or https://
UrlHasScheme ==
  LET u == fetchArgs.url
  IN  \/ Len(u) >= 7 /\ [i \in 1..7 |-> u[i]] = PREFIX_HTTP
      \/ Len(u) >= 8 /\ [i \in 1..8 |-> u[i]] = PREFIX_HTTPS

\* the call got as far as parsing a page and limiting its text
FetchParsed == FetchDone /\ fetchRet.reached \in {"check", "return"}

\* C1: whatever the url, max_words, timeout and the outcome of the request
\* and of parsing, fetch_webpage_content returns a pair: no exception
\* leaves the call.
C1_NoExceptionEscapes == FetchDone => ~fetchRet.raised

\* C2: a url that begins with neither http:// nor https:// gets the
\* invalid-URL failure, and requests.get is not called during the call.
C2_InvalidUrlNoRequest ==
  (FetchDone /\ ~UrlHasScheme) =>
     /\ ~fetchRet.raised
     /\ ~fetchRet.success
     /\ fetchRet.content = MSG_INVALID_URL
     /\ fetchRet.gets = 0

\* a url with the scheme after a leading space was rejected without a request
C2_Witness ==
  /\ FetchDone
  /\ fetchArgs.url = <<" ">> \o URL_HTTP
  /\ fetchArgs.net.get = "ok"
  /\ fetchRet.content = MSG_INVALID_URL
  /\ fetchRet.gets = 0

\* C3: when the HTTP request fails, the call reports the reason of the
\* failure's class: a timeout the timeout message with the timeout value, a
\* failed connection the connection message, an HTTP error status the status
\* code and reason phrase, any other requests failure the request message,
\* any other exception the unexpected-error message.
C3_FailureReasons ==
  LET net == fetchArgs.net
      text == fetchRet.content
      Begins(head) == Len(text) >= Len(head) /\ SubSeq(text, 1, Len(head)) = head
      errorStatus == net.get = "ok" /\ net.status >= 400
  IN  (FetchDone /\ UrlHasScheme /\ (net.get # "ok" \/ errorStatus)) =>
        /\ ~fetchRet.raised
        /\ ~fetchRet.success
        /\ net.get \in {"ReadTimeout", "ConnectTimeout"} =>
             text = MSG_TIMEOUT_HEAD \o Str(fetchArgs.timeout) \o MSG_TIMEOUT_TAIL
        /\ net.get \in {"ConnectionError", "SSLError"} => text = MSG_CONNECTION
        /\ (errorStatus \/ (net.get = "HTTPError" /\ net.response)) =>
             text = MSG_HTTP_HEAD \o Str(net.status) \o MSG_HTTP_SEP \o net.reason
        /\ (net.get = "TooManyRedirects" \/ (net.get = "HTTPError" /\ ~net.response)) =>
             Begins(MSG_REQUEST_HEAD)
        /\ net.get = "LocationParseError" => Begins(MSG_UNEXPECTED_HEAD)

\* C4: clean_text is idempotent: cleaning what clean_text returned returns
\* it unchanged.
C4_CleanIdempotent ==
  (pc = "done" /\ op = "clean") => cleanOut[2] = cleanOut[1]

\* C5: a successful fetch of a page with a title element puts that
\* element's text in the 'Page Title:' line; 'No title' appears only for a
\* page without a title element.
C5_TitleInHeader ==
  LET page == fetchArgs.net.page
      titles == {i \in 1..Len(page) : page[i].path[Len(page[i].path)] = "title"}
      first == CHOOSE i \in titles : \A j \in titles : i <= j
      line == HDR_TITLE \o (IF titles = {} THEN NO_TITLE ELSE strip(page[first].text))
              \o <<"\n">>
  IN  (FetchDone /\ fetchRet.success) =>
        SubSeq(fetchRet.content, 1, Len(line)) = line

\* the call fetched scenario A's page with max_words = 1000
ScenarioA ==
  /\ FetchDone /\ UrlHasScheme
  /\ fetchArgs.net.get = "ok" /\ fetchArgs.net.status = 200
  /\ fetchArgs.net.parse = "ok" /\ fetchArgs.net.page = PageA
  /\ fetchArgs.max_words = 1000

\* C6 as stated: scenario A succeeds with a content that has the header
\* 'Page Title: Cats', has no 'menu' and has 'Cats are mammals.'.
C6_ScenarioA_Original ==
  ScenarioA =>
    /\ fetchRet.success
    /\ Contains(fetchRet.content, HDR_TITLE \o TXT_CATS)
    /\ ~Contains(fetchRet.content, TXT_MENU)
    /\ Contains(fetchRet.content,
                <<"C","a","t","s"," ","a","r","e"," ","m","a","m","m","a","l","s",".">>)

\* C6, amended: scenario A ends in the no-content failure: the text
\* extracted from the page is exactly 'Cats are mammals.' (the navigation's
\* 'menu' is not in it), which is 17 characters, fewer than the 50 a
\* content needs.
C6_ScenarioA_Amended ==
  ScenarioA =>
    /\ ~fetchRet.raised
    /\ ~fetchRet.success
    /\ fetchRet.content = MSG_NO_CONTENT
    /\ fetchRet.text = <<"C","a","t","s"," ","a","r","e"," ","m","a","m","m","a","l","s",".">>
    /\ ~Contains(fetchRet.text, TXT_MENU)
    /\ Len(fetchRet.text) = 17

\* scenario A was fetched and rejected at the length check
C6_Witness == ScenarioA /\ fetchRet.reached = "check" /\ fetchRet.gets = 1

\* the call fetched scenario B's page with max_words = 3
ScenarioB ==
  /\ FetchDone /\ UrlHasScheme
  /\ fetchArgs.net.get = "ok" /\ fetchArgs.net.status = 200
  /\ fetchArgs.net.parse = "ok" /\ fetchArgs.net.page = PageB
  /\ fetchArgs.max_words = 3

\* 'one two three' followed by the marker of a budget of 3 words
TRUNCATED_B ==
  <<"o","n","e"," ","t","w","o"," ","t","h","r","e","e","\n","\n",
    "[","C","o","n","t","e","n","t"," ","t","r","u","n","c","a","t","e","d",
    " ","a","t"," ","3"," ","w","o","r","d","s","]">>

\* C7 as stated: scenario B succeeds, and the body of its content is
\* 'one two three' followed by '[Content truncated at 3 words]'.
C7_ScenarioB_Original ==
  ScenarioB =>
    /\ fetchRet.success
    /\ Len(fetchRet.content) >= Len(TRUNCATED_B)
    /\ SubSeq(fetchRet.content, Len(fetchRet.content) - Len(TRUNCATED_B) + 1,
              Len(fetchRet.content)) = TRUNCATED_B

\* C7, amended: in scenario B the text is cut to 'one two three' followed by
\* the marker '[Content truncated at 3 words]', and the call then ends in
\* the no-content failure, the cut text being 45 characters, fewer than 50.
C7_ScenarioB_Amended ==
  ScenarioB =>
    /\ ~fetchRet.raised
    /\ ~fetchRet.success
    /\ fetchRet.content = MSG_NO_CONTENT
    /\ fetchRet.text = TRUNCATED_B
    /\ Len(fetchRet.text) = 45

\* scenario B was fetched, its five words cut, and rejected at the length check
C7_Witness ==
  ScenarioB /\ fetchRet.reached = "check" /\ Len(fetchRet.words) = 5

\* C8: whatever max_words, a page whose cleaned visible text is empty or
\* shorter than 50 characters gets the no-content failure and never a
\* success: the truncation marker does not count toward the 50 characters.
C8_ShortTextRejected ==
  (FetchParsed /\ Len(fetchRet.cleaned) < 50) =>
     /\ ~fetchRet.success
     /\ fetchRet.content = MSG_NO_CONTENT

\* C9: for max_words >= 0, a text of at most max_words words is left as it
\* is; a longer one becomes its first max_words words joined by single
\* spaces, followed by the marker, so no more than max_words words of the
\* text remain.
C9_Truncation ==
  LET n == fetchArgs.max_words
      words == fetchRet.words
      text == fetchRet.text
      marker == MARK_HEAD \o Str(n) \o MARK_TAIL
      body == SubSeq(text, 1, Len(text) - Len(marker))
  IN  (FetchParsed /\ n >= 0) =>
        IF Len(words) <= n
        THEN text = fetchRet.cleaned
        ELSE /\ Len(text) >= Len(marker)
             /\ SubSeq(text, Len(text) - Len(marker) + 1, Len(text)) = marker
             /\ split(body) = SubSeq(words, 1, n)
             /\ Len(split(body)) <= n
             /\ \A i \in 1..Len(body) :
                  IsSpace(body[i]) =>
                    body[i] = " " /\ 1 < i /\ i < Len(body) /\ ~IsSpace(body[i + 1])

\* a text of more words than a positive budget was cut to a body and the
\* marker, and returned
C9_Witness ==
  /\ FetchParsed
  /\ fetchArgs.max_words > 0
  /\ Len(fetchRet.words) > fetchArgs.max_words
  /\ fetchRet.success
  /\ Len(fetchRet.text) > Len(Marker(fetchArgs.max_words))

\* C10: for max_words <= 0, truncating a text gives the empty body followed
\* by the marker, and no error.
C10_NonPositiveBudget ==
  LET n == fetchArgs.max_words
  IN  (FetchParsed /\ n <= 0 /\ Len(fetchRet.words) > n) =>
        /\ ~fetchRet.raised
        /\ fetchRet.text = MARK_HEAD \o Str(n) \o MARK_TAIL

\* a call of get_content_preview has returned
PreviewDone == pc = "done" /\ op = "preview"

\* C11: for max_chars n >= 0, get_content_preview returns content unchanged
\* when len(content) <= n, and otherwise a prefix of content of at most n
\* characters followed by '...': never more than n + 3 characters.
C11_PreviewLength ==
  LET c == previewArgs.content
      n == previewArgs.max_chars
  IN  (PreviewDone /\ n >= 0) =>
        /\ Len(c) <= n => previewRet = c
        /\ Len(c) > n =>
             \E k \in 0..n : previewRet = [i \in 1..k |-> c[i]] \o <<".", ".", ".">>
        /\ Len(previewRet) <= n + 3

\* a content longer than max_chars was cut back to a space near the end
C11_Witness ==
  /\ PreviewDone
  /\ previewArgs.max_chars > 0
  /\ Len(previewArgs.content) > previewArgs.max_chars
  /\ Len(previewRet) = previewArgs.max_chars + 2

\* C12: get_content_preview never fails; for max_chars zero or negative and
\* a content longer than max_chars, the result is exactly '...'.
C12_PreviewNonPositive ==
  (PreviewDone /\ previewArgs.max_chars <= 0
     /\ Len(previewArgs.content) > previewArgs.max_chars) =>
    previewRet = <<".", ".", ".">>

\* the last handler run was a fetch_and_store_webpage that returned success
StoredNow == last = "fetch" /\ toolRet.status = "success"

\* the page a call of fetch_webpage_content by the tool returns for the
\* arguments of the last fetch
PageOfLastFetch ==
  fetch_webpage_content(toolArgs.url, CONFIG_MAX_WORDS, DEFAULT_TIMEOUT, toolArgs.net)

\* C13: with the handlers run one at a time, webpage_storage is empty or
\* holds the url, content and word_count of one page; after a successful
\* fetch they are all those of the page just fetched, and after Reset All
\* the storage is empty.
C13_OnePageStored ==
  /\ webpage_storage.keys \in {{}, StorageKeys}
  /\ webpage_storage.keys = {} => webpage_storage = EmptyStorage
  /\ webpage_storage.keys = StorageKeys =>
       \E u \in AppUrls, n \in AppNets :
         LET r == fetch_webpage_content(u, CONFIG_MAX_WORDS, DEFAULT_TIMEOUT, n)
         IN  /\ ~r.raised /\ r.success
             /\ webpage_storage.url = u
             /\ webpage_storage.content = r.content
             /\ webpage_storage.word_count = Len(split(r.content))
  /\ StoredNow =>
       /\ webpage_storage.keys = StorageKeys
       /\ webpage_storage.url = toolArgs.url
       /\ webpage_storage.content = PageOfLastFetch.content
       /\ webpage_storage.word_count = toolRet.word_count
  /\ last = "reset" => webpage_storage = EmptyStorage

\* a fetch succeeded while a page was already stored (a question had been
\* answered from it), and the storage holds the new page
C13_Witness ==
  /\ StoredNow
  /\ chat_history # <<>>
  /\ webpage_storage.url = toolArgs.url
  /\ webpage_storage.keys = StorageKeys

\* C14: after a successful fetch_and_store_webpage, the word_count returned
\* and the one stored are the number of whitespace-delimited tokens of the
\* body of the stored content, the text after the metadata header, which is
\* the number the header's 'Word Count:' line reports.
C14_WordCountOfBody ==
  LET content == webpage_storage.content
      text == PageOfLastFetch.text
      body == SubSeq(content, Len(content) - Len(text) + 1, Len(content))
      reported == HDR_COUNT \o Str(Len(split(body))) \o HDR_WORDS
  IN  StoredNow =>
        /\ body = text
        /\ Contains(content, reported)
        /\ toolRet.word_count = Len(split(body))
        /\ webpage_storage.word_count = Len(split(body))

\* C15: a call of fetch_webpage_content with a url that begins with http://
\* or https:// calls requests.get exactly once, whether it succeeds, fails
\* or raises: no failure is followed by a second request.
C15_OneRequest ==
  (FetchDone /\ UrlHasScheme) => fetchRet.gets = 1

\* a request that failed to connect was made once and not again
C15_Witness ==
  /\ FetchDone /\ UrlHasScheme
  /\ fetchArgs.net.get = "ConnectionError"
  /\ ~fetchRet.success
  /\ fetchRet.content = MSG_CONNECTION
  /\ fetchRet.gets = 1

\* the last handler run was a fetch_and_store_webpage that returned an error
FailedNow == last = "fetch" /\ toolRet.status = "error"

\* the error result of the last fetch has the message of the failure (what
\* fetch_webpage_content returned, or the text of the exception it raised
\* after 'Error fetching webpage: '), the content '' and the word_count 0
ErrorResultCarriesFailure ==
  LET r == PageOfLastFetch
  IN  FailedNow =>
        /\ ~r.success
        /\ toolRet.message = IF r.raised
                             THEN MSG_TOOL_ERROR_HEAD \o MSG_NONE_ATTRIBUTE
                             ELSE r.content
        /\ toolRet.content = <<>>
        /\ toolRet.word_count = 0

\* a step of a fetch_and_store_webpage that returns an error does not change
\* webpage_storage
ErrorKeepsStorage ==
  (last' = "fetch" /\ toolRet'.status = "error") =>
    webpage_storage' = webpage_storage

\* C16: a fetch_and_store_webpage call that ends with status 'error' leaves
\* webpage_storage as it was, a page stored earlier keeping its url, content
\* and word_count, and its result carries the failure message with content
\* '' and word_count 0.
C16_ErrorLeavesStorage ==
  [](ErrorResultCarriesFailure) /\ [][ErrorKeepsStorage]_vars

\* a fetch of another url failed while a page was stored, and the page is
\* still there
C16_Witness ==
  /\ FailedNow
  /\ webpage_storage.keys = StorageKeys
  /\ webpage_storage.url # toolArgs.url
  /\ webpage_storage.content # <<>>

\* both calls have returned
BothDone == \A t \in DOMAIN threads : threads[t].pc = "done"

\* both calls have returned after storing their page
BothStored == BothDone /\ \A t \in DOMAIN threads : threads[t].out.store

\* the storage holds the url, content and word_count of the page of thread t
HoldsPageOf(t) ==
  webpage_storage =
    Storage(StorageKeys, threads[t].out.url, threads[t].out.content,
            threads[t].out.word_count)

\* C17 as stated: once two concurrent fetch_and_store_webpage calls for
\* different pages have finished, the stored url, content and word_count
\* all belong to the same one of the two pages.
C17_NoMixing_Original ==
  BothStored => \E t \in DOMAIN threads : HoldsPageOf(t)

\* C17, amended: once both calls have finished, each of the stored url,
\* content and word_count is the value one of the two calls wrote, not
\* necessarily the same call for the three; if only one call stored a page
\* the storage holds that page, and if none did the storage is empty.
C17_NoMixing_Amended ==
  LET stored == {t \in DOMAIN threads : threads[t].out.store}
  IN  BothDone =>
        /\ stored = {} => webpage_storage = EmptyStorage
        /\ stored # {} =>
             /\ webpage_storage.keys = StorageKeys
             /\ \E t \in stored : webpage_storage.url = threads[t].out.url
             /\ \E t \in stored : webpage_storage.content = threads[t].out.content
             /\ \E t \in stored : webpage_storage.word_count = threads[t].out.word_count
        /\ \A t \in stored : stored = {t} => HoldsPageOf(t)

\* both calls have finished, and the storage holds the url of the first
\* call's page with the content and word_count of the second's
C17_Witness ==
  /\ BothStored
  /\ webpage_storage.url = threads[1].out.url
  /\ webpage_storage.content = threads[2].out.content
  /\ webpage_storage.word_count = threads[2].out.word_count
  /\ threads[1].out.content # threads[2].out.content
  /\ threads[1].out.word_count # threads[2].out.word_count

\* the last handler run was a call of get_content_summary
SummaryDone == last = "summary"

\* C18: get_content_summary returns status 'error' exactly when no page
\* content is stored, and otherwise status 'success' with the url and the
\* word_count of the stored page and a summary of at most max_chars + 3
\* characters.
C18_SummaryOfStoredPage ==
  SummaryDone =>
    /\ summaryRet.status = "error" <=> ~HasContent(webpage_storage)
    /\ HasContent(webpage_storage) =>
         /\ summaryRet.status = "success"
         /\ summaryRet.url = webpage_storage.url
         /\ summaryRet.word_count = webpage_storage.word_count
         /\ Len(summaryRet.summary) <= summaryRet.max_chars + 3

\* the entries of h are a 'user' entry then an 'assistant' entry, repeated
IsPairs(h) ==
  /\ Len(h) % 2 = 0
  /\ \A i \in 1..Len(h) : h[i][1] = (IF i % 2 = 1 THEN "user" ELSE "assistant")

\* a step of the chat input: without stored content the history is left as
\* it is and no model call is made; with stored content the question and the
\* response, whatever the model call did, are appended in this order
QuestionStep ==
  last' = "ask" =>
    IF ~HasContent(webpage_storage)
    THEN /\ chat_history' = chat_history
         /\ askRet'.calls = 0
    ELSE /\ Len(chat_history') = Len(chat_history) + 2
         /\ SubSeq(chat_history', 1, Len(chat_history)) = chat_history
         /\ chat_history'[Len(chat_history) + 1] = <<"user", askRet'.question>>
         /\ chat_history'[Len(chat_history) + 2] = <<"assistant", askRet'.response>>
         /\ askRet'.calls <= 1

\* C19: a question submitted while no page content is stored leaves
\* chat_history unchanged and makes no model call; one submitted while
\* content is stored appends one ('user', question) entry and then one
\* ('assistant', response) entry, even when the model call fails; so
\* chat_history is always a sequence of user/assistant pairs.
C19_ChatPairs == [][QuestionStep]_vars /\ [](IsPairs(chat_history))

\* a question asked with a page stored, whose model call failed, was
\* recorded with the error response after an earlier pair
C19_Witness ==
  /\ last = "ask"
  /\ askRet.calls = 1
  /\ Len(chat_history) = 4
  /\ chat_history[3] = <<"user", askRet.question>>
  /\ chat_history[4] = <<"assistant", MSG_ERROR_HEAD \o EXC_MSG \o MSG_ERROR_TAIL>>

=============================================================================
